---------------------------- MODULE Spec2Model ----------------------------
(***************************************************************************)
(* Model of src/app.py: the indicator pipeline analyze_data, the RSI       *)
(* helper calculate_rsi and the rating classifier calculate_rating.        *)
(*                                                                         *)
(* Numbers.  A float cell is one of                                        *)
(*   NaN                      the missing marker (numpy NaN),              *)
(*   [kind "rat",  n, d]      the rational n/d, d > 0, in lowest terms,    *)
(*   [kind "surd", s, n, d]   the real s * sqrt(n/d), s in {-1,0,1}, which *)
(*                            is what a quotient by a standard deviation   *)
(*                            is.                                          *)
(* Arithmetic is exact (no floating-point rounding is modelled).           *)
(***************************************************************************)
EXTENDS Integers, Sequences, FiniteSets, TLC

VARIABLES raw, df, pc, prev, uploads, rsi_in, ratio_in, rating

vars == <<raw, df, pc, prev, uploads, rsi_in, ratio_in, rating>>

-----------------------------------------------------------------------------
(* Exact numbers *)

Abs(x) == IF x < 0 THEN -x ELSE x

Sgn(x) == IF x < 0 THEN -1 ELSE IF x = 0 THEN 0 ELSE 1

RECURSIVE Gcd(_, _)
Gcd(a, b) == IF b = 0 THEN a ELSE Gcd(b, a % b)

NaN == [kind |-> "nan"]

Rat(n, d) ==
    IF d = 1 THEN [kind |-> "rat", n |-> n, d |-> 1]
    ELSE LET g == Gcd(Abs(n), Abs(d))
             s == IF d < 0 THEN -1 ELSE 1
         IN  [kind |-> "rat", n |-> (s * n) \div g, d |-> (s * d) \div g]

Surd(s, n, d) ==
    IF s = 0 \/ n = 0 THEN [kind |-> "surd", s |-> 0, n |-> 0, d |-> 1]
    ELSE LET g == Gcd(n, d) IN [kind |-> "surd", s |-> s, n |-> n \div g, d |-> d \div g]

IsNaN(x) == x.kind = "nan"

IsZero(x) == IF x.kind = "rat" THEN x.n = 0 ELSE IF x.kind = "surd" THEN x.s = 0 ELSE FALSE

\* x + y, x - y, x * y, x / y on floats; a NaN operand gives NaN.
Add(x, y) == IF IsNaN(x) \/ IsNaN(y) THEN NaN ELSE Rat(x.n * y.d + y.n * x.d, x.d * y.d)

Sub(x, y) == IF IsNaN(x) \/ IsNaN(y) THEN NaN ELSE Rat(x.n * y.d - y.n * x.d, x.d * y.d)

\* The product cancels across before it multiplies, so that numerators stay small.
Mul(x, y) ==
    IF IsNaN(x) \/ IsNaN(y) THEN NaN
    ELSE LET g == Gcd(Abs(x.n), y.d)
             h == Gcd(Abs(y.n), x.d)
         IN  Rat((x.n \div g) * (y.n \div h), (x.d \div h) * (y.d \div g))

\* Division of rationals with a non-zero divisor (prices are positive).
Div(x, y) == IF IsNaN(x) \/ IsNaN(y) THEN NaN ELSE Rat(x.n * y.d, x.d * y.n)

\* The square root of a non-negative rational.
Sqrt(x) == IF IsNaN(x) THEN NaN ELSE Surd(1, x.n, x.d)

\* x as s * sqrt(n/d).
AsSurd(x) == IF x.kind = "rat" THEN Surd(Sgn(x.n), x.n * x.n, x.d * x.d) ELSE x

\* Float division by a non-zero, non-missing y (a rational or a surd).
SurdDiv(x, y) ==
    IF IsNaN(x) \/ IsNaN(y) THEN NaN
    ELSE LET a == AsSurd(x)
             b == AsSurd(y)
             g == Gcd(a.n, b.n)
             h == Gcd(a.d, b.d)
         IN  Surd(a.s * b.s, (a.n \div g) * (b.d \div h), (a.d \div h) * (b.n \div g))

\* Float product of two non-missing values, one of them a surd.
SurdMul(x, y) ==
    IF IsNaN(x) \/ IsNaN(y) THEN NaN
    ELSE LET a == AsSurd(x)
             b == AsSurd(y)
             g == Gcd(a.n, b.d)
             h == Gcd(b.n, a.d)
         IN  Surd(a.s * b.s, (a.n \div g) * (b.n \div h), (a.d \div h) * (b.d \div g))

\* Comparisons of a float x with a rational c; any comparison with NaN is false.
Gt(x, c) ==
    IF IsNaN(x) THEN FALSE
    ELSE IF x.kind = "rat" THEN x.n * c.d > c.n * x.d
    ELSE IF c.n >= 0 THEN x.s > 0 /\ x.n * c.d * c.d > c.n * c.n * x.d
    ELSE x.s >= 0 \/ x.n * c.d * c.d < c.n * c.n * x.d

Lt(x, c) ==
    IF IsNaN(x) THEN FALSE
    ELSE IF x.kind = "rat" THEN x.n * c.d < c.n * x.d
    ELSE IF c.n <= 0 THEN x.s < 0 /\ x.n * c.d * c.d > c.n * c.n * x.d
    ELSE x.s <= 0 \/ x.n * c.d * c.d < c.n * c.n * x.d

Le(x, c) == ~IsNaN(x) /\ ~Gt(x, c)

-----------------------------------------------------------------------------
(* calculate_rating *)

InsufficientData == <<"insufficient-data", "data not yet sufficient", "#808080">>

\* A variant of calculate_rating that counts an RSI of exactly 30 as oversold.
calculate_rating_rsi_ge30(rsi, ratio) ==
    IF IsNaN(rsi) \/ IsNaN(ratio) THEN InsufficientData
    ELSE IF Le(rsi, Rat(30, 1)) THEN
        IF Gt(ratio, Rat(0, 1)) THEN <<"E+", "golden pit", "#9370DB">>
        ELSE IF Gt(ratio, Rat(-1, 5)) THEN <<"E", "stabilizing", "#1E90FF">>
        ELSE IF Gt(ratio, Rat(-1, 2)) THEN <<"E-", "grinding down", "#FFA500">>
        ELSE <<"E--", "falling knife", "#8B0000">>
    ELSE IF Gt(rsi, Rat(70, 1)) THEN
        IF Gt(ratio, Rat(1, 1)) THEN <<"C", "squeeze", "#FFA500">>
        ELSE <<"B", "high risk", "#FF4444">>
    ELSE IF Gt(ratio, Rat(1, 1)) THEN <<"S", "perfect uptrend", "#00CC00">>
    ELSE IF Gt(ratio, Rat(1, 2)) THEN <<"A", "steady uptrend", "#90EE90">>
    ELSE IF Gt(ratio, Rat(0, 1)) THEN <<"D", "consolidating", "#808080">>
    ELSE <<"D-", "weak correction", "#D3D3D3">>

\* A variant of calculate_rating that tests only the RSI for a missing value.
calculate_rating_rsi_only(rsi, ratio) ==
    IF IsNaN(rsi) THEN InsufficientData
    ELSE IF Lt(rsi, Rat(30, 1)) THEN
        IF Gt(ratio, Rat(0, 1)) THEN <<"E+", "golden pit", "#9370DB">>
        ELSE IF Gt(ratio, Rat(-1, 5)) THEN <<"E", "stabilizing", "#1E90FF">>
        ELSE IF Gt(ratio, Rat(-1, 2)) THEN <<"E-", "grinding down", "#FFA500">>
        ELSE <<"E--", "falling knife", "#8B0000">>
    ELSE IF Gt(rsi, Rat(70, 1)) THEN
        IF Gt(ratio, Rat(1, 1)) THEN <<"C", "squeeze", "#FFA500">>
        ELSE <<"B", "high risk", "#FF4444">>
    ELSE IF Gt(ratio, Rat(1, 1)) THEN <<"S", "perfect uptrend", "#00CC00">>
    ELSE IF Gt(ratio, Rat(1, 2)) THEN <<"A", "steady uptrend", "#90EE90">>
    ELSE IF Gt(ratio, Rat(0, 1)) THEN <<"D", "consolidating", "#808080">>
    ELSE <<"D-", "weak correction", "#D3D3D3">>

\* calculate_rating (lines 22-56): the label, description and colour of a row.
calculate_rating(rsi, ratio) ==
    IF IsNaN(rsi) \/ IsNaN(ratio) THEN InsufficientData
    ELSE IF Lt(rsi, Rat(30, 1)) THEN
        IF Gt(ratio, Rat(0, 1)) THEN <<"E+", "golden pit", "#9370DB">>
        ELSE IF Gt(ratio, Rat(-1, 5)) THEN <<"E", "stabilizing", "#1E90FF">>
        ELSE IF Gt(ratio, Rat(-1, 2)) THEN <<"E-", "grinding down", "#FFA500">>
        ELSE <<"E--", "falling knife", "#8B0000">>
    ELSE IF Gt(rsi, Rat(70, 1)) THEN
        IF Gt(ratio, Rat(1, 1)) THEN <<"C", "squeeze", "#FFA500">>
        ELSE <<"B", "high risk", "#FF4444">>
    ELSE IF Gt(ratio, Rat(1, 1)) THEN <<"S", "perfect uptrend", "#00CC00">>
    ELSE IF Gt(ratio, Rat(1, 2)) THEN <<"A", "steady uptrend", "#90EE90">>
    ELSE IF Gt(ratio, Rat(0, 1)) THEN <<"D", "consolidating", "#808080">>
    ELSE <<"D-", "weak correction", "#D3D3D3">>


-----------------------------------------------------------------------------
(* calculate_rsi *)

period == 14

Inf == [kind |-> "inf"]

Zero == Rat(0, 1)

One == Rat(1, 1)

Hundred == Rat(100, 1)

\* A variant of FloatDiv that gives 0 for 0 / 0.
FloatDiv_zero_guarded(x, y) ==
    IF IsNaN(x) \/ IsNaN(y) THEN NaN
    ELSE IF y.kind = "inf" THEN (IF x.kind = "inf" THEN NaN ELSE Zero)
    ELSE IF x.kind = "inf" THEN Inf
    ELSE IF y.n = 0 THEN NaN
    ELSE Div(x, y)

\* IEEE division x / y of non-negative floats: x/0 is +inf for x > 0 and NaN for
\* x = 0; x/inf is 0.
FloatDiv(x, y) ==
    IF IsNaN(x) \/ IsNaN(y) THEN NaN
    ELSE IF y.kind = "inf" THEN (IF x.kind = "inf" THEN NaN ELSE Zero)
    ELSE IF x.kind = "inf" THEN Inf
    ELSE IF y.n = 0 THEN (IF x.n = 0 THEN NaN ELSE Inf)
    ELSE Div(x, y)

\* IEEE x + y for y possibly +inf.
FloatAdd(x, y) ==
    IF IsNaN(x) \/ IsNaN(y) THEN NaN
    ELSE IF x.kind = "inf" \/ y.kind = "inf" THEN Inf
    ELSE Add(x, y)

\* series.diff()
diff(series, i) == IF i = 1 THEN NaN ELSE Sub(series[i], series[i - 1])

\* delta.where(delta > 0, 0): NaN > 0 is false, so a missing delta becomes 0.
gain_of(delta) == IF Gt(delta, Zero) THEN delta ELSE Zero

\* -delta.where(delta < 0, 0)
loss_of(delta) == IF Lt(delta, Zero) THEN Sub(Zero, delta) ELSE Zero

\* A column: the values of f on 1..Len(f), each computed once.
Series(f) == SubSeq(f, 1, Len(f))

RECURSIVE SumRange(_, _, _)
SumRange(col, lo, hi) == IF lo > hi THEN Zero ELSE Add(col[hi], SumRange(col, lo, hi - 1))

\* col.rolling(window=w).mean() at row i: missing until w rows are available,
\* and missing when one of them is missing.
rolling_mean(col, i, w) ==
    IF i < w \/ \E j \in (i - w + 1)..i : IsNaN(col[j]) THEN NaN
    ELSE Div(SumRange(col, i - w + 1, i), Rat(w, 1))

\* The RSI of row i from its rolling mean gain and loss.
rsi_of(gain, loss) ==
    LET rs == FloatDiv(gain, loss)
    IN  Sub(Hundred, FloatDiv(Hundred, FloatAdd(One, rs)))

calculate_rsi(series, w) ==
    LET n     == Len(series)
        delta == Series([i \in 1..n |-> diff(series, i)])
        g     == Series([i \in 1..n |-> gain_of(delta[i])])
        l     == Series([i \in 1..n |-> loss_of(delta[i])])
    IN  [i \in 1..n |-> rsi_of(rolling_mean(g, i, w), rolling_mean(l, i, w))]


-----------------------------------------------------------------------------
(* analyze_data: preprocessing *)

\* pd.to_datetime of a date cell <<year, month, day>>: the timestamp, encoded so
\* that the integer order is the chronological order.
to_datetime(cell) == cell[1] * 10000 + cell[2] * 100 + cell[3]

\* dates.dt.year
year_of(ts) == ts \div 10000

\* The decimal strings the uploaded tables hold.
Numerals == ("1" :> 1) @@ ("2" :> 2)

\* pd.to_numeric(cell, errors='coerce'): a number stays, a string is parsed, and
\* what is no number (an unparsable string, an empty cell) becomes NaN.
to_numeric(cell) ==
    IF cell.kind = "int" THEN Rat(cell.v, 1)
    ELSE IF cell.kind = "str" /\ cell.v \in DOMAIN Numerals THEN Rat(Numerals[cell.v], 1)
    ELSE NaN

RemoveAt(t, i) == SubSeq(t, 1, i - 1) \o SubSeq(t, i + 1, Len(t))

\* The least of a non-empty set of timestamps.
Earliest(S) == CHOOSE d \in S : \A e \in S : d <= e

\* A variant of sort_values that leaves the rows in file order.
sort_values_unsorted(t) == {t}

\* df.sort_values(by=date_col): the default sort is not stable, so rows of equal
\* date may come out in any order; every ordering by ascending date is a result.
RECURSIVE sort_values(_)
sort_values(t) ==
    IF t = <<>> THEN {<<>>}
    ELSE LET least == Earliest({t[i].date : i \in 1..Len(t)})
             first == {i \in 1..Len(t) : t[i].date = least}
         IN  UNION {{<<t[i]>> \o rest : rest \in sort_values(RemoveAt(t, i))} : i \in first}

\* df.dropna(subset=[price_col])
RECURSIVE dropna(_)
dropna(t) ==
    IF t = <<>> THEN <<>>
    ELSE IF IsNaN(Head(t).price) THEN dropna(Tail(t))
    ELSE <<Head(t)>> \o dropna(Tail(t))

\* Lines 61-64 on an uploaded table: the tables analyze_data may go on with.
preprocess(table) ==
    LET dated == Series([i \in 1..Len(table) |->
                    [date |-> to_datetime(table[i].date), price |-> table[i].price]])
    IN  {dropna([i \in 1..Len(s) |-> [date |-> s[i].date, price |-> to_numeric(s[i].price)]]) :
            s \in sort_values(dated)}

-----------------------------------------------------------------------------
(* analyze_data: indicators *)

window == 20

long_window == 60

target_date == 20240930

\* prices.pct_change() at row i, as a fraction.
pct_change(prices, i) == IF i = 1 THEN NaN ELSE Sub(Div(prices[i], prices[i - 1]), One)

\* (prices / prices.shift(k) - 1) * 100 at row i.
period_change(prices, i, k) ==
    IF i <= k THEN NaN ELSE Mul(Sub(Div(prices[i], prices[i - k]), One), Hundred)

RECURSIVE SumSquares(_, _, _)
SumSquares(col, lo, hi) ==
    IF lo > hi THEN Zero ELSE Add(Mul(col[hi], col[hi]), SumSquares(col, lo, hi - 1))

\* col.rolling(window=w).std() at row i (sample standard deviation, ddof = 1).
rolling_std(col, i, w) ==
    IF i < w \/ \E j \in (i - w + 1)..i : IsNaN(col[j]) THEN NaN
    ELSE LET sum == SumRange(col, i - w + 1, i)
             sq  == SumSquares(col, i - w + 1, i)
         IN  Sqrt(Div(Sub(sq, Div(Mul(sum, sum), Rat(w, 1))), Rat(w - 1, 1)))

\* A variant of momentum_ratio that gives 0 for a missing volatility.
momentum_ratio_nan_as_zero(momentum, volatility) ==
    IF IsNaN(volatility) \/ IsZero(volatility) THEN Zero ELSE SurdDiv(momentum, volatility)

\* A variant of momentum_ratio that divides by a zero volatility.
momentum_ratio_unguarded(momentum, volatility) ==
    IF IsZero(volatility) THEN NaN ELSE SurdDiv(momentum, volatility)

\* np.where(volatility != 0, momentum / volatility, 0): NaN != 0 is true.
momentum_ratio(momentum, volatility) ==
    IF ~IsZero(volatility) THEN SurdDiv(momentum, volatility) ELSE Zero

\* round(2) of a non-negative rational: to the nearest hundredth, ties to even.
round2(x) ==
    IF IsNaN(x) THEN NaN
    ELSE LET y == Mul(x, Hundred)
             q == y.n \div y.d
             r == y.n - q * y.d
         IN  IF 2 * r < y.d THEN Rat(q, 100)
             ELSE IF 2 * r > y.d THEN Rat(q + 1, 100)
             ELSE IF q % 2 = 0 THEN Rat(q, 100) ELSE Rat(q + 1, 100)

\* prices[:i].rank(pct=True) at row i with the default method 'average': the mean
\* of the ranks of the rows that tie with row i, over the number of rows.
rank_pct(prices, lo, i) ==
    LET less  == Cardinality({j \in lo..i : Lt(prices[j], prices[i])})
        equal == Cardinality({j \in lo..i : prices[j] = prices[i]})
    IN  Div(Rat(2 * less + equal + 1, 2), Rat(i - lo + 1, 1))

\* A variant of price_percentile that ranks within the whole series.
price_percentile_full_series(prices, i, n) == round2(Mul(rank_pct(prices, 1, n), Hundred))

\* A variant of price_percentile that gives tied prices their highest rank.
price_percentile_max_rank(prices, i, n) ==
    round2(Mul(Div(Rat(Cardinality({j \in 1..i : ~Gt(prices[j], prices[i])}), 1), Rat(i, 1)),
               Hundred))

\* (prices.expanding().rank(pct=True) * 100).round(2) at row i of n.
price_percentile(prices, i, n) == round2(Mul(rank_pct(prices, 1, i), Hundred))

\* A variant of first_in_year that anchors every year at the first row.
first_in_year_first_row_only(dates) == {i \in 1..Len(dates) : i = 1}

\* df.groupby('year').head(1).index: the first row of each year.
first_in_year(dates) ==
    {i \in 1..Len(dates) : \A j \in 1..(i - 1) : year_of(dates[j]) # year_of(dates[i])}

\* col.ffill() at row i
RECURSIVE ffill(_, _)
ffill(col, i) ==
    IF i = 0 THEN NaN ELSE IF IsNaN(col[i]) THEN ffill(col, i - 1) ELSE col[i]

\* A variant of base_series_of that anchors at the last row on or after the
\* target date.
base_series_of_last_row(dates, prices) ==
    LET base_mask == {i \in 1..Len(dates) : dates[i] >= target_date}
    IN  IF base_mask # {} THEN
            LET base_idx == CHOOSE i \in base_mask : \A j \in base_mask : i >= j
            IN  [i \in 1..Len(dates) |-> IF i >= base_idx THEN prices[base_idx] ELSE NaN]
        ELSE [i \in 1..Len(dates) |-> NaN]

\* Lines 104-113: the base price series, NaN before the first row on or after
\* the target date, and all NaN when no row reaches it.
base_series_of(dates, prices) ==
    LET base_mask == {i \in 1..Len(dates) : dates[i] >= target_date}
    IN  IF base_mask # {} THEN
            LET base_idx == CHOOSE i \in base_mask : \A j \in base_mask : i <= j
            IN  [i \in 1..Len(dates) |-> IF i >= base_idx THEN prices[base_idx] ELSE NaN]
        ELSE [i \in 1..Len(dates) |-> NaN]

\* Lines 66-121 on the preprocessed table t: one output row per row of t.
analyze_data(t) ==
    LET n          == Len(t)
        prices     == Series([i \in 1..n |-> t[i].price])
        dates      == Series([i \in 1..n |-> t[i].date])
        daily_ret  == Series([i \in 1..n |-> pct_change(prices, i)])
        change20   == Series([i \in 1..n |-> period_change(prices, i, window)])
        vol20      == Series([i \in 1..n |->
                                SurdMul(rolling_std(daily_ret, i, window), Hundred)])
        ratio      == Series([i \in 1..n |-> momentum_ratio(Div(change20[i], Hundred),
                                                             SurdDiv(vol20[i], Hundred))])
        rsi        == Series(calculate_rsi(prices, period))
        firsts     == first_in_year(dates)
        ytd_start0 == Series([i \in 1..n |-> IF i \in firsts THEN prices[i] ELSE NaN])
        ytd_start  == Series([i \in 1..n |-> ffill(ytd_start0, i)])
        base       == Series(base_series_of(dates, prices))
        ratings    == Series([i \in 1..n |-> calculate_rating(rsi[i], ratio[i])])
    IN  [i \in 1..n |->
            [date       |-> dates[i],
             price      |-> prices[i],
             pct_change |-> Mul(daily_ret[i], Hundred),
             change20   |-> change20[i],
             change60   |-> period_change(prices, i, long_window),
             vol20      |-> vol20[i],
             ratio      |-> ratio[i],
             rsi        |-> rsi[i],
             percentile |-> price_percentile(prices, i, n),
             ytd        |-> Mul(Sub(Div(prices[i], ytd_start[i]), One), Hundred),
             td202409   |-> Mul(Sub(Div(prices[i], base[i]), One), Hundred),
             rating     |-> ratings[i][1],
             rating_desc  |-> ratings[i][2],
             rating_color |-> ratings[i][3]]]


-----------------------------------------------------------------------------
(* The uploaded tables *)

MaxRows == 3

MaxPrice == 2

MaxLong == 22

MaxUploads == 1

RatioBound == 30

NewYear == <<2025, 1, 2>>

Dates == {<<2024, 9, 27>>, <<2024, 9, 30>>, NewYear}

IntCell(v) == [kind |-> "int", v |-> v]

StrCell(v) == [kind |-> "str", v |-> v]

\* A number, a numeric string, a string that is no number, an empty cell.
PriceCells == {IntCell(1), StrCell("2"), StrCell("abc"), [kind |-> "none"]}

\* Short tables: any dates in any order, any cells.
ShortTables ==
    UNION {[1..n -> [date : Dates, price : PriceCells]] : n \in 0..MaxRows}

\* The date of row i of a daily series that starts on 2024-09-10.
DailyDate(i) == IF 9 + i <= 30 THEN <<2024, 9, 9 + i>> ELSE <<2024, 10, i - 21>>

\* Long daily series of valid prices: rows 1..a alternate between p1 and p2,
\* the rows after a are at p3, a flat tail.
LongTable(n, p1, p2, p3, a) ==
    [i \in 1..n |->
        [date  |-> DailyDate(i),
         price |-> IntCell(IF i <= a THEN (IF i % 2 = 1 THEN p1 ELSE p2) ELSE p3)]]

\* A daily series that doubles every day: 1, 2, 4, ...
GrowthTable(n) == [i \in 1..n |-> [date |-> DailyDate(i), price |-> IntCell(2 ^ (i - 1))]]

\* The lengths of the flat tail: none, short, and a whole RSI window with and
\* without the step into it.
TailLengths == {0, 1, 2, period, period + 1}

LongTables ==
    UNION {{LongTable(n, p1, p2, p3, n - k) :
                p1 \in 1..MaxPrice, p2 \in 1..MaxPrice, p3 \in 1..MaxPrice,
                k \in TailLengths} : n \in window..MaxLong}
    \cup {GrowthTable(n) : n \in (window + 1)..MaxLong}

\* The numeric prices of a table, in row order.
RECURSIVE NumericPrices(_)
NumericPrices(table) ==
    IF table = <<>> THEN <<>>
    ELSE IF IsNaN(to_numeric(Head(table).price)) THEN NumericPrices(Tail(table))
    ELSE <<to_numeric(Head(table).price).n>> \o NumericPrices(Tail(table))

\* The prices a new row may carry: a price of 1..MaxPrice or twice the last
\* price, and within a factor MaxPrice of the last price (as everywhere in the
\* tables above).
NextPrices(table) ==
    LET ps   == NumericPrices(table)
        last == IF ps = <<>> THEN 1 ELSE ps[Len(ps)]
    IN  {v \in (1..MaxPrice) \cup {2 * last} : v <= MaxPrice * last /\ last <= MaxPrice * v}

-----------------------------------------------------------------------------
(* The application: a table is uploaded and analysed; an updated table, the    *)
(* same rows and one more row of a later date, may be uploaded and analysed   *)
(* in turn.                                                                    *)

Start(tables) ==
    /\ raw \in tables
    /\ df = <<>>
    /\ prev = <<>>
    /\ pc = "uploaded"
    /\ uploads = 0
    /\ rsi_in = NaN
    /\ ratio_in = NaN
    /\ rating = <<>>

Init == Start(ShortTables)

InitLong == Start(LongTables)

\* df_result = analyze_data(df_raw.copy(), date_col, price_col)
Analyze ==
    /\ pc = "uploaded"
    /\ \E t \in preprocess(raw) : df' = analyze_data(t)
    /\ pc' = "done"
    /\ UNCHANGED <<raw, prev, uploads, rsi_in, ratio_in, rating>>

\* The file is uploaded again with one more row, dated after every row it has.
Upload ==
    /\ pc = "done"
    /\ uploads < MaxUploads
    /\ \E d \in {DailyDate(Len(raw) + 1), NewYear}, v \in NextPrices(raw) :
          /\ \A i \in 1..Len(raw) : to_datetime(raw[i].date) < to_datetime(d)
          /\ raw' = Append(raw, [date |-> d, price |-> IntCell(v)])
    /\ prev' = df
    /\ df' = <<>>
    /\ pc' = "uploaded"
    /\ uploads' = uploads + 1
    /\ UNCHANGED <<rsi_in, ratio_in, rating>>

Next == Analyze \/ Upload

Spec == Init /\ [][Next]_vars

SpecLong == InitLong /\ [][Next]_vars

-----------------------------------------------------------------------------
(* The classifier alone, on a grid of inputs that holds every threshold *)

RsiInputs == {NaN} \cup {Rat(k, 2) : k \in 0..200}

RatioInputs == {NaN} \cup {Rat(k, 20) : k \in (-RatioBound)..RatioBound}

InitRating ==
    /\ rsi_in \in RsiInputs
    /\ ratio_in \in RatioInputs
    /\ rating = <<>>
    /\ raw = <<>>
    /\ df = <<>>
    /\ prev = <<>>
    /\ pc = "classify"
    /\ uploads = 0

Classify ==
    /\ pc = "classify"
    /\ rating' = calculate_rating(rsi_in, ratio_in)
    /\ pc' = "classified"
    /\ UNCHANGED <<raw, df, prev, uploads, rsi_in, ratio_in>>

NextRating == Classify

SpecRating == InitRating /\ [][NextRating]_vars


-----------------------------------------------------------------------------
(* Properties of calculate_rating (SpecRating) *)

\* Order on rationals.
Less(a, b) == a.n * b.d < b.n * a.d

LessEq(a, b) == a.n * b.d <= b.n * a.d

\* The labels of the decision table whose range holds (rsi, ratio).
TableLabels(rsi, ratio) ==
    LET oversold   == Less(rsi, Rat(30, 1))
        overbought == Less(Rat(70, 1), rsi)
        normal     == LessEq(Rat(30, 1), rsi) /\ LessEq(rsi, Rat(70, 1))
    IN  {e[1] : e \in {x \in
          {<<"E+",  oversold /\ Less(Rat(0, 1), ratio)>>,
           <<"E",   oversold /\ Less(Rat(-1, 5), ratio) /\ LessEq(ratio, Rat(0, 1))>>,
           <<"E-",  oversold /\ Less(Rat(-1, 2), ratio) /\ LessEq(ratio, Rat(-1, 5))>>,
           <<"E--", oversold /\ LessEq(ratio, Rat(-1, 2))>>,
           <<"C",   overbought /\ Less(Rat(1, 1), ratio)>>,
           <<"B",   overbought /\ LessEq(ratio, Rat(1, 1))>>,
           <<"S",   normal /\ Less(Rat(1, 1), ratio)>>,
           <<"A",   normal /\ Less(Rat(1, 2), ratio) /\ LessEq(ratio, Rat(1, 1))>>,
           <<"D",   normal /\ Less(Rat(0, 1), ratio) /\ LessEq(ratio, Rat(1, 2))>>,
           <<"D-",  normal /\ LessEq(ratio, Rat(0, 1))>>} : x[2]}}

\* C1: for every non-missing pair (rsi, ratio) exactly one of the ten ranges of
\* the decision table holds the pair, and calculate_rating returns its label;
\* the thresholds 30 and 70 of rsi belong to the normal region.
C1_DecisionTable ==
    (pc = "classified" /\ ~IsNaN(rsi_in) /\ ~IsNaN(ratio_in))
        => TableLabels(rsi_in, ratio_in) = {rating[1]}

\* A pair on two thresholds at once: rsi exactly 30 and ratio exactly 0.5.
C1_Witness ==
    /\ pc = "classified"
    /\ rsi_in = Rat(30, 1)
    /\ ratio_in = Rat(1, 2)
    /\ rating[1] = "D"

Ratings ==
    {InsufficientData,
     <<"E+", "golden pit", "#9370DB">>, <<"E", "stabilizing", "#1E90FF">>,
     <<"E-", "grinding down", "#FFA500">>, <<"E--", "falling knife", "#8B0000">>,
     <<"C", "squeeze", "#FFA500">>, <<"B", "high risk", "#FF4444">>,
     <<"S", "perfect uptrend", "#00CC00">>, <<"A", "steady uptrend", "#90EE90">>,
     <<"D", "consolidating", "#808080">>, <<"D-", "weak correction", "#D3D3D3">>}

\* C2: calculate_rating returns a (label, description, colour) triple for every
\* pair, and the insufficient-data label with the gray colour whenever rsi or
\* ratio is missing, whatever the other value is.
C2_TotalAndMissing ==
    pc = "classified" =>
        /\ rating \in Ratings
        /\ (IsNaN(rsi_in) \/ IsNaN(ratio_in)) =>
              (rating[1] = "insufficient-data" /\ rating[3] = "#808080")

\* An oversold rsi with a missing ratio.
C2_Witness ==
    /\ pc = "classified"
    /\ rsi_in = Rat(25, 1)
    /\ IsNaN(ratio_in)
    /\ rating = InsufficientData

-----------------------------------------------------------------------------
(* Properties of analyze_data *)

Rows == 1..Len(df)

\* The cells pd.to_numeric keeps.
IsNumericCell(cell) == cell.kind = "int" \/ (cell.kind = "str" /\ cell.v \in {"1", "2"})

ValueOfCell(cell) == IF cell.kind = "int" THEN cell.v ELSE IF cell.v = "1" THEN 1 ELSE 2

\* C3: in every output row the ratio is exactly 0 when the 20-day volatility is
\* exactly 0, missing when the volatility is missing, and otherwise the quotient
\* of the 20-period change by the volatility (ratio * volatility = change).
C3_MomentumRatio ==
    pc = "done" =>
        \A i \in Rows :
            /\ IsZero(df[i].vol20) => IsZero(df[i].ratio)
            /\ IsNaN(df[i].vol20) => IsNaN(df[i].ratio)
            /\ (~IsZero(df[i].vol20) /\ ~IsNaN(df[i].vol20)) =>
                  /\ ~IsNaN(df[i].ratio)
                  /\ SurdMul(df[i].ratio, df[i].vol20) = AsSurd(df[i].change20)

\* A row of zero volatility and non-zero 20-period change, rated on a ratio of 0,
\* in a table that also has rows of missing volatility.
C3_Witness ==
    /\ pc = "done"
    /\ \E i \in Rows :
          /\ IsZero(df[i].vol20)
          /\ ~IsNaN(df[i].change20) /\ ~IsZero(df[i].change20)
          /\ IsZero(df[i].ratio)
    /\ \E i \in Rows : IsNaN(df[i].vol20) /\ IsNaN(df[i].ratio)

\* The output rows on or after the target date 2024-09-30.
AnchorRows == {i \in Rows : df[i].date >= target_date}

\* (a / b - 1) * 100 for prices a and b.
PercentOver(a, b) == Rat(100 * (a.n * b.d - b.n * a.d), b.n * a.d)

\* C4: with no row on or after 2024-09-30 every fixed-anchor return is missing;
\* otherwise, with k the first such row, the rows before k are missing, row k is
\* exactly 0 and every row i >= k is (price[i] / price[k] - 1) * 100.
C4_FixedAnchor ==
    pc = "done" =>
        IF AnchorRows = {} THEN \A i \in Rows : IsNaN(df[i].td202409)
        ELSE LET k == CHOOSE i \in AnchorRows : \A j \in AnchorRows : i <= j
             IN  /\ \A i \in 1..(k - 1) : IsNaN(df[i].td202409)
                 /\ df[k].td202409 = Rat(0, 1)
                 /\ \A i \in k..Len(df) : df[i].td202409 = PercentOver(df[i].price, df[k].price)

\* The anchor row is not the first row, and a later row at another price
\* follows it.
C4_Witness ==
    /\ pc = "done"
    /\ \E k \in AnchorRows :
          /\ k > 1
          /\ k - 1 \notin AnchorRows
          /\ IsNaN(df[k - 1].td202409)
          /\ k + 1 \in Rows
          /\ df[k + 1].td202409 # Rat(0, 1)

\* The rows of the uploaded table whose price is numeric.
NumericRows == {i \in 1..Len(raw) : IsNumericCell(raw[i].price)}

\* One output row per numeric input row, with its date and price.
SameRows ==
    /\ Len(df) = Cardinality(NumericRows)
    /\ \A d \in {to_datetime(raw[i].date) : i \in NumericRows},
          v \in {ValueOfCell(raw[i].price) : i \in NumericRows} :
          Cardinality({i \in Rows : df[i].date = d /\ df[i].price = Rat(v, 1)})
            = Cardinality({i \in NumericRows :
                  to_datetime(raw[i].date) = d /\ ValueOfCell(raw[i].price) = v})

\* C5 as claimed: one output row per input row of numeric price, and the output
\* sorted strictly by ascending date.
C5_StrictlySorted ==
    pc = "done" =>
        /\ SameRows
        /\ \A i, j \in Rows : i < j => df[i].date < df[j].date

\* C5, amended: one output row per input row of numeric price, no other row
\* dropped or added, and the output sorted by ascending date, rows of equal
\* date next to each other; strictly ascending when the numeric rows of the
\* input have distinct dates.
C5_SortedByDate ==
    pc = "done" =>
        /\ SameRows
        /\ \A i, j \in Rows : i < j => df[i].date <= df[j].date
        /\ (\A i, j \in NumericRows : i # j => raw[i].date # raw[j].date)
              => \A i, j \in Rows : i < j => df[i].date < df[j].date

\* A table uploaded out of date order, with a row of invalid price that is
\* dropped and two numeric rows that are kept.
C5_Witness ==
    /\ pc = "done"
    /\ Len(df) >= 2
    /\ Len(df) < Len(raw)
    /\ \E i \in 1..(Len(raw) - 1) : to_datetime(raw[i].date) > to_datetime(raw[i + 1].date)

\* The first output row of the calendar year of row i.
FirstOfYear(i) ==
    CHOOSE f \in Rows :
        /\ df[f].date \div 10000 = df[i].date \div 10000
        /\ \A j \in Rows : df[j].date \div 10000 = df[i].date \div 10000 => f <= j

\* C6: the YTD value of every row i is (price[i] / price[f] - 1) * 100 with f the
\* first retained row of the calendar year of row i, so it is 0 on the first
\* row of each year.
C6_YearToDate ==
    pc = "done" =>
        \A i \in Rows :
            /\ df[i].ytd = PercentOver(df[i].price, df[FirstOfYear(i)].price)
            /\ FirstOfYear(i) = i => df[i].ytd = Rat(0, 1)

\* Two calendar years in the output, a row after the first of its year with a
\* non-zero YTD value, and a row of invalid price dropped at or ahead of the
\* first retained row of its year.
C6_Witness ==
    /\ pc = "done"
    /\ \E i \in Rows : FirstOfYear(i) < i /\ df[i].ytd # Rat(0, 1)
    /\ \E i \in Rows : i > 1 /\ FirstOfYear(i) = i /\ df[i].ytd = Rat(0, 1)
    /\ \E i \in Rows, r \in 1..Len(raw) :
          /\ FirstOfYear(i) = i
          /\ ~IsNumericCell(raw[r].price)
          /\ to_datetime(raw[r].date) <= df[i].date
          /\ to_datetime(raw[r].date) \div 10000 = df[i].date \div 10000

\* The integer price of output row i (the uploaded prices are whole numbers).
P(i) == df[i].price.n

\* x in hundredths, when x is a whole number of hundredths (-1 otherwise).
Hundredths(x) == IF x.kind = "rat" /\ 100 % x.d = 0 THEN x.n * (100 \div x.d) ELSE -1

\* C7 as claimed: the percentile of row i is 100 * #{j <= i : price[j] <= price[i]}
\* / i to two decimals, also when an earlier row has the same price.
C7_CountAtMost ==
    pc = "done" =>
        \A i \in Rows :
            LET le == Cardinality({j \in 1..i : P(j) <= P(i)})
                h  == Hundredths(df[i].percentile)
            IN  /\ h \in 0..10000
                /\ 2 * Abs(h * i - 10000 * le) <= i

\* C7, amended: the percentile of row i is 100 * (L + (E + 1) / 2) / i to two
\* decimals, with L the number of rows j <= i of lower price and E the number
\* of rows j <= i of equal price, row i included (the mean rank of the tied
\* rows); it uses no row after i, lies in [0, 100], and is the claimed count of
\* rows at or below price[i] when no earlier row has the price of row i.
C7_AverageRank ==
    pc = "done" =>
        \A i \in Rows :
            LET lt == Cardinality({j \in 1..i : P(j) < P(i)})
                eq == Cardinality({j \in 1..i : P(j) = P(i)})
                h  == Hundredths(df[i].percentile)
            IN  /\ h \in 0..10000
                /\ 2 * Abs(h * 2 * i - 10000 * (2 * lt + eq + 1)) <= 2 * i
                /\ eq = 1 => 2 * Abs(h * i - 10000 * (lt + eq)) <= i

\* A row whose price ties with one earlier row and lies above another.
C7_Witness ==
    /\ pc = "done"
    /\ \E i \in Rows :
          /\ \E j \in 1..(i - 1) : P(j) = P(i)
          /\ \E j \in 1..(i - 1) : P(j) < P(i)
          /\ df[i].percentile = Rat(8333, 100)


\* The sums of the gains and of the losses over the 14 rows that end at row i;
\* row 1 has no delta and counts as 0 in both.
RECURSIVE GainSum(_, _)
GainSum(lo, hi) ==
    IF lo > hi THEN 0
    ELSE (IF lo >= 2 /\ P(lo) > P(lo - 1) THEN P(lo) - P(lo - 1) ELSE 0) + GainSum(lo + 1, hi)

RECURSIVE LossSum(_, _)
LossSum(lo, hi) ==
    IF lo > hi THEN 0
    ELSE (IF lo >= 2 /\ P(lo) < P(lo - 1) THEN P(lo - 1) - P(lo) ELSE 0) + LossSum(lo + 1, hi)

G(i) == GainSum(i - period + 1, i)

L(i) == LossSum(i - period + 1, i)

\* C8 as claimed: the RSI is 100 on every row whose 14-row mean loss is 0, and
\* is 100 - 100 / (1 + mean_gain / mean_loss), within [0, 100], on every row
\* whose mean gain and mean loss are both positive.
C8_ZeroLossIs100 ==
    pc = "done" =>
        \A i \in Rows : i >= period =>
            /\ L(i) = 0 => df[i].rsi = Rat(100, 1)
            /\ (G(i) > 0 /\ L(i) > 0) => df[i].rsi = Rat(100 * G(i), G(i) + L(i))

\* C8, amended: on a row whose 14-row mean loss is 0 the RSI is 100 when the
\* mean gain is positive and missing when the mean gain is 0 too (0/0); on a
\* row whose mean gain and mean loss are both positive it is
\* 100 - 100 / (1 + mean_gain / mean_loss) = 100 * gain / (gain + loss), within
\* [0, 100].
C8_RsiValues ==
    pc = "done" =>
        \A i \in Rows : i >= period =>
            /\ (L(i) = 0 /\ G(i) > 0) => df[i].rsi = Rat(100, 1)
            /\ (L(i) = 0 /\ G(i) = 0) => IsNaN(df[i].rsi)
            /\ (G(i) > 0 /\ L(i) > 0) =>
                  /\ df[i].rsi = Rat(100 * G(i), G(i) + L(i))
                  /\ LessEq(Rat(0, 1), df[i].rsi) /\ LessEq(df[i].rsi, Rat(100, 1))

\* One table with a row of zero loss and positive gain (RSI 100), a row of zero
\* loss and zero gain (RSI missing) and a row with both positive.
C8_Witness ==
    /\ pc = "done"
    /\ \E i \in Rows : i >= period /\ L(i) = 0 /\ G(i) > 0 /\ df[i].rsi = Rat(100, 1)
    /\ \E i \in Rows : i >= period /\ L(i) = 0 /\ G(i) = 0 /\ IsNaN(df[i].rsi)
    /\ \E i \in Rows : i >= period /\ L(i) > 0 /\ G(i) > 0 /\ ~IsNaN(df[i].rsi)

\* C9: every row is rated by calculate_rating on its own RSI and ratio, and
\* every row at a position below 20 (the first 20 rows) has a missing
\* 20-period change, a missing 20-day volatility, a missing ratio and the
\* insufficient-data rating; the volatility is first defined on the 21st row.
C9_First20Insufficient ==
    pc = "done" =>
        \A i \in Rows :
            /\ i <= window =>
                  /\ IsNaN(df[i].change20) /\ IsNaN(df[i].vol20) /\ IsNaN(df[i].ratio)
                  /\ <<df[i].rating, df[i].rating_desc, df[i].rating_color>> = InsufficientData
            /\ i > window => (~IsNaN(df[i].change20) /\ ~IsNaN(df[i].vol20))
            /\ <<df[i].rating, df[i].rating_desc, df[i].rating_color>> \in Ratings
            /\ df[i].rating = "insufficient-data" <=> (IsNaN(df[i].rsi) \/ IsNaN(df[i].ratio))

\* The 20th row has an RSI and is still rated insufficient-data; the 21st and
\* the 22nd row carry two different ratings of the decision table.
C9_Witness ==
    /\ pc = "done"
    /\ Len(df) >= window + 2
    /\ ~IsNaN(df[window].rsi)
    /\ df[window].rating = "insufficient-data"
    /\ df[window + 1].rating # "insufficient-data"
    /\ df[window + 2].rating # "insufficient-data"
    /\ df[window + 1].rating # df[window + 2].rating

\* The table analysed before the last upload: valid prices in every row and
\* strictly ascending dates.
PreviousValid ==
    /\ uploads > 0
    /\ \A i \in 1..(Len(raw) - 1) : IsNumericCell(raw[i].price)
    /\ \A i \in 1..(Len(raw) - 2) : to_datetime(raw[i].date) < to_datetime(raw[i + 1].date)

\* C10: when a valid series sorted by ascending date is analysed, and analysed
\* again with a row of a later date added, every column of every row of the
\* first result is the same in the second.
C10_NoLookAhead ==
    (pc = "done" /\ PreviousValid) =>
        /\ Len(df) >= Len(prev)
        /\ \A i \in 1..Len(prev) : df[i] = prev[i]

\* A rated series of more than 20 rows that is extended by the first row to
\* reach 2024-09-30, at a price below an earlier price.
C10_Witness ==
    /\ pc = "done"
    /\ PreviousValid
    /\ Len(prev) >= window
    /\ Len(df) = Len(prev) + 1
    /\ df[Len(df)].date = target_date
    /\ \E j \in 1..Len(prev) : P(j) > P(Len(df))
    /\ \E j \in 1..Len(prev) : ~IsNaN(prev[j].rsi)

=============================================================================
